---- MODULE Spec2Model ----
(***************************************************************************)
(* Model of src/lib.rs of mkfifo_named_pipe: the FIFO provisioner          *)
(* my_mkfifo, the errno resolver errno_to_err_msg, and the three tests     *)
(* sender_process, receiver_process, test_errno_no_such_file_or_directory, *)
(* which the test harness runs as concurrent threads/processes.            *)
(*                                                                         *)
(* Strings are sequences of bytes.  An OS call that takes a `const char*`  *)
(* reads memory from the pointer up to the first zero byte.                *)
(***************************************************************************)
EXTENDS Integers, Sequences, FiniteSets, TLC

\* ------------------------------------------------------------------ bounds
\* Longest run of bytes that the build may place behind the PATH literal.
MaxTail == 2

\* ------------------------------------------------------- program constants
\* const PATH: &str = "/home/w/temp/my_pipe";   (no terminator byte)
PATH == <<47,104,111,109,101,47,119,47,116,101,109,112,47,109,121,95,112,105,112,101>>

\* "/tmp/not_exist_file\0"  (terminator written in the literal)
NOT_EXIST_LIT == <<47,116,109,112,47,110,111,116,95,101,120,105,115,116,95,102,105,108,101,0>>

\* b"hello\n\0"
msg == <<104,101,108,108,111,10,0>>

\* [0u8; 128] and the length handed to strerror_r
BufLen == 128

S_IFIFO  == 4096
S_IREAD  == 256
S_IWRITE == 128
ENOENT == 2
EACCES == 13
EEXIST == 17

\* st_mode values of entries that may pre-exist at PATH (0: no entry)
ModeFifo == S_IFIFO + S_IREAD + S_IWRITE
ModeReg  == 33188
ModeDir  == 16877
ModeSock == 49645
Modes0   == {0, ModeFifo, ModeReg, ModeDir, ModeSock}

\* bytes the build may place behind a literal
TailBytes == {0, 115}

\* --------------------------------------------------------------- helpers
RECURSIVE BitAnd(_, _)
BitAnd(a, b) ==
  IF a = 0 \/ b = 0 THEN 0
  ELSE (a % 2) * (b % 2) + 2 * BitAnd(a \div 2, b \div 2)

SeqsUpTo(B, n) == UNION {[1..k -> B] : k \in 0..n}

Tails == SeqsUpTo(TailBytes, MaxTail)

\* index (1-based) of the first zero byte of s, 0 when s holds none
FirstZero(s) ==
  IF \E i \in 1..Len(s) : s[i] = 0
  THEN CHOOSE i \in 1..Len(s) : s[i] = 0 /\ \A j \in 1..(i-1) : s[j] # 0
  ELSE 0

\* What the OS reads from `s.as_ptr()`: the bytes of s, then whatever lies
\* behind s in memory, up to the first zero byte.
CStrAt(s, behind) ==
  LET mem == s \o behind \o <<0>> IN SubSeq(mem, 1, FirstZero(mem) - 1)

\* format!("{}\0", PATH)
path_with_nul == PATH \o <<0>>

\* std's Path -> CString conversion (appends the terminator itself)
CStringNew(s) == s \o <<0>>

NOT_EXIST == CStrAt(NOT_EXIST_LIT, <<>>)

Paths == {CStrAt(PATH, t) : t \in Tails} \cup {PATH, NOT_EXIST}

Demo  == {"S", "R"}
Procs == {"S", "R", "T"}
Other(p) == IF p = "S" THEN "R" ELSE "S"

\* ---------------------------------------------------------------- state
VARIABLES
  rodataTail,          \* bytes behind the PATH literal (fixed by the build)
  bufAssumedImmutable, \* build treats `let err_msg_buf` as never written
  fs,                  \* path -> st_mode (0: no entry)
  fs0,                 \* fs at start
  dirWritable,         \* may entries be created in the directory of PATH
  pc,                  \* position of each test
  errno,               \* thread-local error code
  failCode,            \* code set by the failing call awaiting diagnosis (0: none)
  mkres,               \* how my_mkfifo ended for each caller
  reported,            \* errno printed / resolved by each thread (-1: none)
  errMsg,              \* message returned by errno_to_err_msg
  mkfifoReqs,          \* number of mkfifo requests issued by each caller
  created,             \* number of FIFOs created
  otherDoneAtStart,    \* the peer's my_mkfifo had ended when this one began
  oscalls,             \* path strings handed to the OS
  readers, writers,    \* ends of the FIFO currently open
  rEver, wEver,        \* a reader / writer has entered open on the FIFO
  pipeBuf,             \* bytes in the pipe
  recvBuf,             \* bytes accumulated by read_to_string
  eofAfterClose,       \* sender had closed when the receiver saw end-of-stream
  resPc, resErrno, resBuf, resOut   \* standalone run of errno_to_err_msg

buildVars == <<rodataTail, bufAssumedImmutable>>
fsVars    == <<fs, fs0, dirWritable, created>>
provVars  == <<mkres, mkfifoReqs, otherDoneAtStart>>
errVars   == <<errno, failCode, reported, errMsg>>
pipeVars  == <<readers, writers, rEver, wEver, pipeBuf, recvBuf, eofAfterClose>>
resVars   == <<resPc, resErrno, resBuf, resOut>>
vars == <<buildVars, fsVars, provVars, errVars, pipeVars, resVars, pc, oscalls>>

\* ------------------------------------------------------ errno resolver
NoTerminator == <<-1>>

\* contents strerror_r may leave in the buffer: n message bytes, a
\* terminator, then `junk`; n = BufLen leaves no room for the terminator
Fill(n, junk) ==
  [i \in 1..BufLen |-> IF i <= n THEN 120 ELSE IF i = n + 1 THEN 0 ELSE junk]

ZeroBuf == [i \in 1..BufLen |-> 0]

\* err_msg_buf.iter().position(|&x| x == b'\0')   (1-based; 0 is None)
position(buf) == FirstZero(buf)

\* errno_to_err_msg, given the bytes strerror_r left in the buffer.
\* The buffer is an immutable binding written through as_ptr(): the scan
\* sees either the written bytes or the initial zeros.
errno_to_err_msg(written) ==
  LET err_msg_buf == IF bufAssumedImmutable THEN ZeroBuf ELSE written
      p == position(err_msg_buf)
  IN IF p = 0 THEN NoTerminator              \* .unwrap() on None
     ELSE SubSeq(err_msg_buf, 1, p - 1)      \* err_msg_buf[..err_msg_buf_len]

DemoFills == {Fill(25, 0), Fill(BufLen, 0)}

\* errno is thread-local: a failing call sets the caller's own slot
SetErrnoShared(e, t, code) == [q \in DOMAIN e |-> code]
SetErrno(e, t, code) == [e EXCEPT ![t] = code]

\* record of one path argument: the bytes the caller owns at the pointer
\* (`given`) and the path the OS reads from it (`seen`)
OsCall(fn, t, logical, given, behind) ==
  [fn |-> fn, by |-> t, logical |-> logical, given |-> given,
   seen |-> CStrAt(given, behind)]

\* ------------------------------------------------------------ my_mkfifo
\* std::path::Path::new(PATH).exists()
Exists(p) ==
  /\ pc[p] = "start"
  /\ LET seen == CStrAt(CStringNew(PATH), <<>>) IN
     /\ oscalls' = oscalls \cup {OsCall("exists", p, PATH, CStringNew(PATH), <<>>)}
     /\ IF fs[seen] # 0
        THEN /\ pc' = [pc EXCEPT ![p] = "stat"]
             /\ errno' = errno
        ELSE /\ pc' = [pc EXCEPT ![p] = "mkfifo"]
             /\ errno' = SetErrno(errno, p, ENOENT)
  /\ otherDoneAtStart' =
       [otherDoneAtStart EXCEPT ![p] = (mkres[Other(p)] # "running")]
  /\ UNCHANGED <<buildVars, fsVars, mkres, mkfifoReqs, failCode, reported,
                 errMsg, pipeVars, resVars>>

\* libc::stat(path_with_nul.as_ptr(), &mut file_stat); assert!(...); return
StatAssert(p) ==
  /\ pc[p] = "stat"
  /\ LET seen == CStrAt(path_with_nul, <<>>)
         st_mode == fs[seen]    \* stays zeroed when stat fails
     IN
     /\ oscalls' = oscalls \cup {OsCall("stat", p, PATH, path_with_nul, <<>>)}
     /\ errno' = IF fs[seen] = 0 THEN SetErrno(errno, p, ENOENT) ELSE errno
     /\ IF BitAnd(st_mode, S_IFIFO) # 0
        THEN /\ mkres' = [mkres EXCEPT ![p] = "returned"]
             /\ pc' = [pc EXCEPT ![p] = "open"]
        ELSE /\ mkres' = [mkres EXCEPT ![p] = "assert_panic"]
             /\ pc' = [pc EXCEPT ![p] = "panicked"]
  /\ UNCHANGED <<buildVars, fsVars, mkfifoReqs, otherDoneAtStart, failCode,
                 reported, errMsg, pipeVars, resVars>>

\* libc::mkfifo(PATH.as_ptr(), S_IREAD | S_IWRITE)
MkfifoCall(p) ==
  /\ pc[p] = "mkfifo"
  /\ LET seen == CStrAt(PATH, rodataTail)
         code == IF fs[seen] # 0 THEN EEXIST
                 ELSE IF ~dirWritable THEN EACCES ELSE 0
     IN
     /\ oscalls' = oscalls \cup {OsCall("mkfifo", p, PATH, PATH, rodataTail)}
     /\ mkfifoReqs' = [mkfifoReqs EXCEPT ![p] = @ + 1]
     /\ IF code = 0
        THEN /\ fs' = [fs EXCEPT ![seen] = S_IFIFO + S_IREAD + S_IWRITE]
             /\ created' = created + 1
             /\ mkres' = [mkres EXCEPT ![p] = "returned"]
             /\ pc' = [pc EXCEPT ![p] = "open"]
             /\ UNCHANGED <<errno, failCode>>
        ELSE /\ errno' = SetErrno(errno, p, code)
             /\ failCode' = [failCode EXCEPT ![p] = code]
             /\ pc' = [pc EXCEPT ![p] = "mkfifo_failed"]
             /\ UNCHANGED <<fs, created, mkres>>
  /\ UNCHANGED <<buildVars, fs0, dirWritable, otherDoneAtStart, reported,
                 errMsg, pipeVars, resVars>>

\* if mkfifo_res == -1 { errno = *__errno_location(); errno_to_err_msg; panic! }
MkfifoFailed(p) ==
  /\ pc[p] = "mkfifo_failed"
  /\ \E written \in DemoFills :
       LET code == errno[p]
           err_msg == errno_to_err_msg(written)
       IN
       /\ reported' = [reported EXCEPT ![p] = code]
       /\ errMsg' = [errMsg EXCEPT ![p] = err_msg]
       /\ mkres' = [mkres EXCEPT ![p] =
                      IF err_msg = NoTerminator THEN "unwrap_panic"
                      ELSE "mkfifo_panic"]
  /\ pc' = [pc EXCEPT ![p] = "panicked"]
  /\ UNCHANGED <<buildVars, fsVars, mkfifoReqs, otherDoneAtStart, errno,
                 failCode, pipeVars, resVars, oscalls>>

\* ------------------------------------------- sender / receiver: the pipe
\* OpenOptions::new().write(true).open(PATH) / File::open(PATH): entering
\* the open call.  .unwrap() panics when the call fails.
OpenBegin(p) ==
  /\ pc[p] = "open"
  /\ LET seen == CStrAt(CStringNew(PATH), <<>>) IN
     /\ oscalls' = oscalls \cup {OsCall("open", p, PATH, CStringNew(PATH), <<>>)}
     /\ IF fs[seen] = 0
        THEN /\ errno' = SetErrno(errno, p, ENOENT)
             /\ pc' = [pc EXCEPT ![p] = "panicked"]
             /\ UNCHANGED <<readers, writers, rEver, wEver>>
        ELSE /\ errno' = errno
             /\ pc' = [pc EXCEPT ![p] = "opening"]
             /\ IF p = "S"
                THEN /\ writers' = writers + 1
                     /\ wEver' = TRUE
                     /\ UNCHANGED <<readers, rEver>>
                ELSE /\ readers' = readers + 1
                     /\ rEver' = TRUE
                     /\ UNCHANGED <<writers, wEver>>
  /\ UNCHANGED <<buildVars, fsVars, provVars, failCode, reported, errMsg,
                 pipeBuf, recvBuf, eofAfterClose, resVars>>

\* a non-blocking open would return without waiting for the peer
OpenReturnNonBlocking(p) ==
  /\ pc[p] = "opening"
  /\ pc' = [pc EXCEPT ![p] = IF p = "S" THEN "write" ELSE "read"]
  /\ UNCHANGED <<buildVars, fsVars, provVars, errVars, pipeVars, resVars,
                 oscalls>>

\* the blocking open returns once the complementary end has been opened
OpenReturn(p) ==
  /\ pc[p] = "opening"
  /\ IF p = "S" THEN rEver ELSE wEver
  /\ pc' = [pc EXCEPT ![p] = IF p = "S" THEN "write" ELSE "read"]
  /\ UNCHANGED <<buildVars, fsVars, provVars, errVars, pipeVars, resVars,
                 oscalls>>

\* std::io::Write::write_all(&mut pipe, msg)
\* (.unwrap() panics on a broken pipe; the unwinding drops `pipe`)
Write ==
  /\ pc["S"] = "write"
  /\ IF readers > 0
     THEN /\ pipeBuf' = pipeBuf \o msg
          /\ pc' = [pc EXCEPT !["S"] = "close"]
          /\ UNCHANGED writers
     ELSE /\ pc' = [pc EXCEPT !["S"] = "panicked"]
          /\ writers' = writers - 1
          /\ UNCHANGED pipeBuf
  /\ UNCHANGED <<buildVars, fsVars, provVars, errVars, readers,
                 rEver, wEver, recvBuf, eofAfterClose, resVars, oscalls>>

\* end of sender_process: `pipe` is dropped, the write end is closed
Close ==
  /\ pc["S"] = "close"
  /\ writers' = writers - 1
  /\ pc' = [pc EXCEPT !["S"] = "done"]
  /\ UNCHANGED <<buildVars, fsVars, provVars, errVars, readers, rEver,
                 wEver, pipeBuf, recvBuf, eofAfterClose, resVars, oscalls>>

\* one read(2) issued by read_to_string that returns data
ReadData ==
  /\ pc["R"] = "read"
  /\ pipeBuf # <<>>
  /\ recvBuf' = recvBuf \o pipeBuf
  /\ pipeBuf' = <<>>
  /\ UNCHANGED <<buildVars, fsVars, provVars, errVars, readers, writers,
                 rEver, wEver, eofAfterClose, resVars, pc, oscalls>>

\* read(2) returns 0: read_to_string validates UTF-8 and returns, dbg!(buf),
\* `pipe` is dropped
ReadEof ==
  /\ pc["R"] = "read"
  /\ pipeBuf = <<>>
  /\ writers = 0
  /\ eofAfterClose' = (pc["S"] = "done")
  /\ readers' = readers - 1
  /\ pc' = [pc EXCEPT !["R"] =
              IF \A i \in 1..Len(recvBuf) : recvBuf[i] < 128
              THEN "done" ELSE "panicked"]
  /\ UNCHANGED <<buildVars, fsVars, provVars, errVars, writers, rEver,
                 wEver, pipeBuf, recvBuf, resVars, oscalls>>

\* ---------------------------------- test_errno_no_such_file_or_directory
\* libc::open("/tmp/not_exist_file\0".as_ptr(), O_RDONLY)
TestOpen ==
  /\ pc["T"] = "start"
  /\ LET seen == CStrAt(NOT_EXIST_LIT, rodataTail) IN
     /\ oscalls' = oscalls \cup
          {OsCall("open", "T", NOT_EXIST, NOT_EXIST_LIT, rodataTail)}
     /\ IF fs[seen] = 0
        THEN /\ errno' = SetErrno(errno, "T", ENOENT)
             /\ failCode' = [failCode EXCEPT !["T"] = ENOENT]
        ELSE UNCHANGED <<errno, failCode>>
  /\ pc' = [pc EXCEPT !["T"] = "errno"]
  /\ UNCHANGED <<buildVars, fsVars, provVars, reported, errMsg, pipeVars,
                 resVars>>

\* let errno = *__errno_location(); dbg!(fd, errno_to_err_msg(errno))
TestErrno ==
  /\ pc["T"] = "errno"
  /\ \E written \in DemoFills :
       LET code == errno["T"]
           err_msg == errno_to_err_msg(written)
       IN
       /\ reported' = [reported EXCEPT !["T"] = code]
       /\ errMsg' = [errMsg EXCEPT !["T"] = err_msg]
       /\ pc' = [pc EXCEPT !["T"] =
                   IF err_msg = NoTerminator THEN "panicked" ELSE "done"]
  /\ UNCHANGED <<buildVars, fsVars, provVars, errno, failCode, pipeVars,
                 resVars, oscalls>>

\* ------------------------------------------------------- specification
Init ==
  /\ rodataTail \in Tails
  /\ bufAssumedImmutable \in BOOLEAN
  /\ \E m \in Modes0, n \in {0, ModeReg} :
       fs = [q \in Paths |-> IF q = PATH THEN m
                             ELSE IF q = NOT_EXIST THEN n ELSE 0]
  /\ fs0 = fs
  /\ dirWritable \in BOOLEAN
  /\ pc = [p \in Procs |-> "start"]
  /\ errno = [p \in Procs |-> 0]
  /\ failCode = [p \in Procs |-> 0]
  /\ mkres = [p \in Demo |-> "running"]
  /\ reported = [p \in Procs |-> -1]
  /\ errMsg = [p \in Procs |-> <<>>]
  /\ mkfifoReqs = [p \in Demo |-> 0]
  /\ created = 0
  /\ otherDoneAtStart = [p \in Demo |-> FALSE]
  /\ oscalls = {}
  /\ readers = 0 /\ writers = 0
  /\ rEver = FALSE /\ wEver = FALSE
  /\ pipeBuf = <<>> /\ recvBuf = <<>>
  /\ eofAfterClose = FALSE
  /\ resPc = "idle" /\ resErrno = 0 /\ resBuf = ZeroBuf /\ resOut = <<>>

Step(p) ==
  \/ Exists(p)
  \/ StatAssert(p)
  \/ MkfifoCall(p)
  \/ MkfifoFailed(p)
  \/ OpenBegin(p)
  \/ OpenReturn(p)

SenderStep   == Step("S") \/ Write \/ Close
ReceiverStep == Step("R") \/ ReadData \/ ReadEof
TestStep     == TestOpen \/ TestErrno

Next ==
  \/ \E p \in Demo : Exists(p)
  \/ \E p \in Demo : StatAssert(p)
  \/ \E p \in Demo : MkfifoCall(p)
  \/ \E p \in Demo : MkfifoFailed(p)
  \/ \E p \in Demo : OpenBegin(p)
  \/ \E p \in Demo : OpenReturn(p)
  \/ Write
  \/ Close
  \/ ReadData
  \/ ReadEof
  \/ TestOpen
  \/ TestErrno

Spec == Init /\ [][Next]_vars

\* every test thread that can take a step eventually takes one
FairSpec ==
  Spec /\ WF_vars(SenderStep) /\ WF_vars(ReceiverStep) /\ WF_vars(TestStep)

\* ------------------------------- errno_to_err_msg on its own (all fills)
Fills == {Fill(n, junk) : n \in 0..BufLen, junk \in {0, 120}}

ResInit ==
  /\ rodataTail = <<>>
  /\ bufAssumedImmutable \in BOOLEAN
  /\ fs = [q \in Paths |-> 0]
  /\ fs0 = fs
  /\ dirWritable = TRUE
  /\ pc = [p \in Procs |-> "idle"]
  /\ errno = [p \in Procs |-> 0]
  /\ failCode = [p \in Procs |-> 0]
  /\ mkres = [p \in Demo |-> "running"]
  /\ reported = [p \in Procs |-> -1]
  /\ errMsg = [p \in Procs |-> <<>>]
  /\ mkfifoReqs = [p \in Demo |-> 0]
  /\ created = 0
  /\ otherDoneAtStart = [p \in Demo |-> FALSE]
  /\ oscalls = {}
  /\ readers = 0 /\ writers = 0
  /\ rEver = FALSE /\ wEver = FALSE
  /\ pipeBuf = <<>> /\ recvBuf = <<>>
  /\ eofAfterClose = FALSE
  /\ resPc = "call"
  /\ resErrno \in {ENOENT, EACCES, EEXIST}
  /\ resBuf \in Fills
  /\ resOut = <<>>

\* one call errno_to_err_msg(resErrno); strerror_r leaves resBuf
Resolve ==
  /\ resPc = "call"
  /\ LET r == errno_to_err_msg(resBuf) IN
     /\ resOut' = r
     /\ resPc' = IF r = NoTerminator THEN "panicked" ELSE "returned"
  /\ UNCHANGED <<buildVars, fsVars, provVars, errVars, pipeVars, resErrno,
                 resBuf, pc, oscalls>>

ResNext == Resolve

SpecResolver == ResInit /\ [][ResNext]_vars

\* ================================================================ claims
IsFifo(mode) == BitAnd(mode, S_IFIFO) # 0
Hello == <<104,101,108,108,111,10>>
Ended(p) == mkres[p] # "running"
Opened(p) == pc[p] \in {"write", "close", "read", "done"}
InOpen(p) == IF p = "S" THEN wEver ELSE rEver

\* C1: when no entry exists at PATH, a call of my_mkfifo that returns leaves
\* an entry at PATH whose type is FIFO.
C1_AbsentThenFifo ==
  \A p \in Demo :
    (fs0[PATH] = 0 /\ mkres[p] = "returned") => IsFifo(fs[PATH])

\* C2: two calls of my_mkfifo in succession on the same path both succeed,
\* and the second issues no FIFO-creation request.
C2_Idempotent ==
  \A p \in Demo :
    (Ended(p) /\ otherDoneAtStart[p] /\ fs0[PATH] \in {0, ModeFifo}
       /\ dirWritable)
    => /\ mkres[p] = "returned"
       /\ mkres[Other(p)] = "returned"
       /\ mkfifoReqs[p] = 0

\* C3: when a non-FIFO entry pre-exists at PATH, the provisioner returns the
\* error value UnexpectedFileType and leaves the entry unmodified.
C3_UnexpectedFileType ==
  \A p \in Demo :
    (fs0[PATH] # 0 /\ ~IsFifo(fs0[PATH]) /\ pc[p] \notin {"start", "stat"})
    => /\ mkres[p] = "UnexpectedFileType"
       /\ fs[PATH] = fs0[PATH]

\* C4: when the receiver's read-to-completion returns, it has accumulated
\* exactly the 6 bytes hello\n, and it saw end-of-stream only after the
\* sender had closed its end.
C4_ReceivesHello ==
  pc["R"] = "done" => (recvBuf = Hello /\ eofAfterClose)

\* C5: a blocking open of the FIFO has returned only if the complementary
\* side has entered its own open; never has one side's open completed while
\* the other side has not yet started its open.
C5_BlockingOpenHandshake ==
  \A p \in Demo : Opened(p) => InOpen(Other(p))

C5_Witness ==
  /\ pc["R"] = "read"
  /\ pc["S"] = "opening"

\* C6: the error code read after a failing OS call, handed to the resolver
\* and reported, is the code that failing call set on the same thread.
C6_ErrnoIsFromFailingCall ==
  /\ \A p \in Demo :
       /\ pc[p] = "mkfifo_failed" => errno[p] = failCode[p]
       /\ mkres[p] \in {"mkfifo_panic", "unwrap_panic"}
            => reported[p] = failCode[p]
  /\ failCode["T"] # 0 =>
       /\ pc["T"] = "errno" => errno["T"] = failCode["T"]
       /\ pc["T"] \in {"done", "panicked"} => reported["T"] = failCode["T"]

C6_Witness ==
  /\ \E p \in Demo : mkres[p] = "mkfifo_panic" /\ reported[p] = EEXIST
  /\ pc["T"] = "done" /\ reported["T"] = ENOENT

\* C7: the resolver returns exactly the bytes before the first terminator
\* of the buffer (at most 127), and a buffer without terminator yields the
\* error MessageResolutionError, never an abort.
C7_ResolveOrError ==
  resPc # "call" =>
    IF FirstZero(resBuf) # 0
    THEN /\ resPc = "returned"
         /\ resOut = SubSeq(resBuf, 1, FirstZero(resBuf) - 1)
         /\ Len(resOut) <= BufLen - 1
    ELSE resPc = "MessageResolutionError"

\* C8: every path string handed to an OS call is the logical path followed
\* by exactly one terminator byte, the logical path holds no terminator, and
\* mkfifo is given the same path as stat.
C8_PathsTerminated ==
  /\ \A c \in oscalls :
       /\ c.given = c.logical \o <<0>>
       /\ FirstZero(c.logical) = 0
       /\ c.seen = c.logical
  /\ \A c, d \in oscalls :
       ({c.fn, d.fn} \subseteq {"exists", "stat", "mkfifo"}) => c.seen = d.seen

\* C9: when sender and receiver both call my_mkfifo while no entry exists,
\* both calls return successfully and exactly one FIFO is created.
C9_ConcurrentProvisioning ==
  (fs0[PATH] = 0 /\ dirWritable /\ \A p \in Demo : Ended(p))
  => /\ \A p \in Demo : mkres[p] = "returned"
     /\ created = 1

\* C10: under fair scheduling the sender and the receiver both eventually
\* terminate, the sender after open, write and close, the receiver after
\* its read-to-completion.
C10_BothTerminate ==
  (fs0[PATH] \in {0, ModeFifo} /\ dirWritable)
  => <>(pc["S"] = "done" /\ pc["R"] = "done")

====
